---- MODULE Spec2Model ----
(***************************************************************************)
(* MiniLRUCache (MiniLRUCache.ts) with its NodePool (NodeManager.ts): a    *)
(* bounded LRU cache with an optional per-entry TTL, kept as a hash index  *)
(* (key -> node) plus an intrusive doubly linked list of heap nodes.       *)
(*                                                                         *)
(* Nodes are heap objects; a node is named by its identity (1..NumNodes),  *)
(* heap[n] holds its fields, NULL is the null reference.  Every method of  *)
(* the class is an operator from the object's fields (a record) to the     *)
(* fields after the call, with the returned value in the field ret.        *)
(*                                                                         *)
(* With ttl > 0 and autoSweep the cache owns an LRUCacheWorker              *)
(* (lruCache.worker.ts), which runs lruCache.worker.impl.ts in a Worker: a *)
(* timer there posts "sweep" messages, and the handler of each message, on *)
(* the thread of the cache, calls sweepExpired.  The record of fields      *)
(* holds the fields of that object and the state of the Workers as well.   *)
(*                                                                         *)
(* matchAsyncMemo (match.ts) memoizes an asynchronous matcher in such a    *)
(* cache: the keys are the inputs, the values the promises of the results. *)
(***************************************************************************)
EXTENDS Integers, Sequences, FiniteSets, TLC

\* ---- bounds of the model ----
NumKeys == 4
NumValues == 2
MaxCap == 3
MaxTime == 2
MaxLookups == 2
MaxWorkers == 2
MaxPending == 2
MaxPromises == 3
MaxCalls == 4
MaxDepth == 2

\* ---- constants of the program ----
NULL == 0
Undefined == 0
DefaultSweepInterval == 60000

Keys == 1..NumKeys
Values == 1..NumValues
Times == 0..MaxTime
Caps == -1..MaxCap
TTLs == 0..(MaxTime - 1)
NumNodes == MaxCap + 1
NodeIds == 1..NumNodes
WorkerIds == 1..MaxWorkers
Intervals == {DefaultSweepInterval, DefaultSweepInterval \div 2}
PromiseIds == 1..MaxPromises

VARIABLES
    max, ttl, status,        \* constructor arguments and its outcome
    map, head, tail, size,   \* MiniLRUCache fields
    hits, misses,
    heap,                    \* the fields of every Node object
    pool,                    \* NodePool.pool
    sweepWorker,             \* whether MiniLRUCache.sweepWorker is defined
    worker, interval,        \* LRUCacheWorker fields
    threads,                 \* every Worker: its thread, timer and message queues
    promises,                \* matchAsyncMemo: input and state of every promise made
    stack,                   \* matchAsyncMemo: the calls of fn that are running
    returned,                \* matchAsyncMemo: how many calls were given each promise
    env,                     \* the caller of this run: the inputs it passes (fixed per run)
    clock,                   \* in a monotone run, the last timestamp passed
    recency,                 \* history: resident keys, most recently accessed first
    written,                 \* history: time and value of the set that made a key resident
    swept                    \* history: a sweep asked for by a Worker has removed an entry

vars == <<max, ttl, status, map, head, tail, size, hits, misses, heap, pool,
          sweepWorker, worker, interval, threads,
          promises, stack, returned,
          env, clock, recency, written, swept>>

\* ---- Node and NodePool ----

ClearedNode == [key |-> NULL, value |-> NULL, prev |-> NULL, next |-> NULL, createdAt |-> 0]

Node(key, value, createdAt) ==
    [key |-> key, value |-> value, prev |-> NULL, next |-> NULL, createdAt |-> createdAt]

Resident(s) == {s.map[k] : k \in Keys} \ {NULL}

PoolSet(s) == {s.pool[i] : i \in 1..Len(s.pool)}

\* the identity of a newly allocated object: one that nothing refers to
newNode(s) ==
    CHOOSE n \in NodeIds :
        /\ n \notin Resident(s) \cup PoolSet(s)
        /\ \A m \in 1..(n - 1) : m \in Resident(s) \cup PoolSet(s)

\* an acquire that allocates a new node every time
acquire_alwaysNew(s, key, value, createdAt) ==
    LET node == newNode(s)
    IN [s EXCEPT !.heap[node] = Node(key, value, createdAt),
                 !.ret = node]

acquire(s, key, value, createdAt) ==
    IF Len(s.pool) > 0
    THEN LET node == s.pool[Len(s.pool)]
         IN [s EXCEPT !.pool = SubSeq(s.pool, 1, Len(s.pool) - 1),
                      !.heap[node] = Node(key, value, createdAt),
                      !.ret = node]
    ELSE LET node == newNode(s)
         IN [s EXCEPT !.heap[node] = Node(key, value, createdAt),
                      !.ret = node]

\* a release that pushes the node with its fields as they were
release_keepsFields(s, node) ==
    [s EXCEPT !.pool = Append(s.pool, node)]

release(s, node) ==
    [s EXCEPT !.heap[node] = ClearedNode,
              !.pool = Append(s.pool, node)]

poolClear(s) == [s EXCEPT !.pool = <<>>]

\* ---- MiniLRUCache: private list operations ----

\* a removeNode that forgets to move tail when the last node is unlinked
removeNode_keepsTail(s, node) ==
    LET prev == s.heap[node].prev
        next == s.heap[node].next
        h1 == IF prev # NULL THEN [s.heap EXCEPT ![prev].next = next] ELSE s.heap
        h2 == IF next # NULL THEN [h1 EXCEPT ![next].prev = prev] ELSE h1
    IN [s EXCEPT !.heap = [h2 EXCEPT ![node].prev = NULL, ![node].next = NULL],
                 !.head = IF node = s.head THEN next ELSE s.head]

removeNode(s, node) ==
    LET prev == s.heap[node].prev
        next == s.heap[node].next
        h1 == IF prev # NULL THEN [s.heap EXCEPT ![prev].next = next] ELSE s.heap
        h2 == IF next # NULL THEN [h1 EXCEPT ![next].prev = prev] ELSE h1
    IN [s EXCEPT !.heap = [h2 EXCEPT ![node].prev = NULL, ![node].next = NULL],
                 !.head = IF node = s.head THEN next ELSE s.head,
                 !.tail = IF node = s.tail THEN prev ELSE s.tail]

\* a removeInternal that forgets size--
removeInternal_keepsSize(s, node) ==
    LET s1 == removeNode(s, node)
        s2 == [s1 EXCEPT !.map[s1.heap[node].key] = NULL]
    IN release(s2, node)

\* a removeInternal that releases the node without unlinking it
removeInternal_stillLinked(s, node) ==
    LET s2 == [s EXCEPT !.map[s.heap[node].key] = NULL]
        s3 == release(s2, node)
    IN [s3 EXCEPT !.size = s3.size - 1]

\* a removeInternal that drops the node instead of releasing it
removeInternal_dropsNode(s, node) ==
    LET s1 == removeNode(s, node)
        s2 == [s1 EXCEPT !.map[s1.heap[node].key] = NULL]
    IN [s2 EXCEPT !.size = s2.size - 1]

removeInternal(s, node) ==
    LET s1 == removeNode(s, node)
        s2 == [s1 EXCEPT !.map[s1.heap[node].key] = NULL]
        s3 == release(s2, node)
    IN [s3 EXCEPT !.size = s3.size - 1]

\* a moveToFront that leaves the node where it is
moveToFront_stays(s, node) == s

moveToFront(s, node) ==
    IF node = s.head THEN s
    ELSE LET s1 == removeNode(s, node)
             h1 == [s1.heap EXCEPT ![node].prev = NULL, ![node].next = s1.head]
             h2 == IF s1.head # NULL THEN [h1 EXCEPT ![s1.head].prev = node] ELSE h1
         IN [s1 EXCEPT !.heap = h2,
                       !.head = node,
                       !.tail = IF s1.tail = NULL THEN node ELSE s1.tail]

addToFront(s, node) ==
    LET h1 == [s.heap EXCEPT ![node].prev = NULL, ![node].next = s.head]
        h2 == IF s.head # NULL THEN [h1 EXCEPT ![s.head].prev = node] ELSE h1
    IN [s EXCEPT !.heap = h2,
                 !.head = node,
                 !.tail = IF s.tail = NULL THEN node ELSE s.tail]

\* an evictLRU that evicts the head, the node just written
evictLRU_newest(s) ==
    IF s.head = NULL THEN s ELSE removeInternal(s, s.head)

\* an evictLRU that evicts nothing
evictLRU_nothing(s) == s

evictLRU(s) ==
    IF s.tail = NULL THEN s ELSE removeInternal(s, s.tail)

\* ---- LRUCacheWorker and the Worker it runs ----

\* a Worker that does not exist, or was terminated
NoThread == [alive |-> FALSE, inbox |-> <<>>, intervalId |-> NULL, period |-> 0, outbox |-> 0]

\* new LRUCacheWorker(cache, interval), interval being 60000 when left out
LRUCacheWorker(s, sweepInterval) ==
    [s EXCEPT !.worker = NULL,
              !.interval = IF sweepInterval # Undefined THEN sweepInterval
                           ELSE DefaultSweepInterval]

\* the identity of a new Worker: one that is not running
newWorker(s) ==
    CHOOSE w \in WorkerIds :
        /\ ~s.threads[w].alive
        /\ \A v \in 1..(w - 1) : s.threads[v].alive

\* worker.postMessage(msg), from the cache's thread to the Worker
postMessage(s, w, msg) ==
    [s EXCEPT !.threads[w].inbox = Append(@, msg)]

\* worker.terminate(): the Worker stops at once, with its timer; messages it
\* has posted and that were not delivered yet are dropped
terminate(s, w) ==
    [s EXCEPT !.threads[w] = NoThread]

\* a start that makes a new Worker whether or not one is running
start_again(s) ==
    LET w == newWorker(s)
        s1 == [s EXCEPT !.worker = w, !.threads[w] = [NoThread EXCEPT !.alive = TRUE]]
    IN postMessage(s1, w, [type |-> "start", interval |-> s.interval])

start(s) ==
    IF s.worker # NULL THEN s
    ELSE LET w == newWorker(s)
             s1 == [s EXCEPT !.worker = w, !.threads[w] = [NoThread EXCEPT !.alive = TRUE]]
         IN postMessage(s1, w, [type |-> "start", interval |-> s.interval])

\* a stop that forgets the Worker without terminating it
stop_noTerminate(s) ==
    [s EXCEPT !.worker = NULL]

stop(s) ==
    IF s.worker # NULL
    THEN [terminate(s, s.worker) EXCEPT !.worker = NULL]
    ELSE s

\* a restart that keeps the interval it had
restart_sameInterval(s, newInterval) ==
    start(stop(s))

restart(s, newInterval) ==
    LET s1 == stop(s)
        s2 == IF newInterval # Undefined THEN [s1 EXCEPT !.interval = newInterval] ELSE s1
    IN start(s2)

\* a self.onmessage that takes the start message and sets no timer
selfOnmessage_noTimer(s, w) ==
    [s EXCEPT !.threads[w].inbox = Tail(@)]

\* self.onmessage of the Worker, for the first message of its queue
selfOnmessage(s, w) ==
    LET msg == Head(s.threads[w].inbox)
        t == [s.threads[w] EXCEPT !.inbox = Tail(@)]
    IN IF msg.type = "start"
       THEN [s EXCEPT !.threads[w] = [t EXCEPT !.intervalId = 1, !.period = msg.interval]]
       ELSE IF msg.type = "stop" /\ t.intervalId # NULL
            THEN [s EXCEPT !.threads[w] = [t EXCEPT !.intervalId = NULL, !.period = 0]]
            ELSE [s EXCEPT !.threads[w] = t]

\* the callback of setInterval in the Worker: self.postMessage({type: "sweep"})
intervalCallback(s, w) ==
    [s EXCEPT !.threads[w].outbox = @ + 1]

\* ---- MiniLRUCache: public methods ----

\* an expiry test that counts the boundary now - createdAt = ttl as expired
isExpired_atBoundary(s, node, now) == now - s.heap[node].createdAt >= ttl

\* the expiry test of get, has and sweepExpired
isExpired(s, node, now) == now - s.heap[node].createdAt > ttl

\* a get that does not count the miss of an expired entry
get_expiryUncounted(s, key, now) ==
    LET node == s.map[key]
    IN IF node = NULL
       THEN [s EXCEPT !.misses = @ + 1, !.ret = Undefined]
       ELSE IF ttl > 0 /\ isExpired(s, node, now)
            THEN [removeInternal(s, node) EXCEPT !.ret = Undefined]
            ELSE LET s1 == [s EXCEPT !.hits = @ + 1]
                     s2 == IF node # s1.head THEN moveToFront(s1, node) ELSE s1
                 IN [s2 EXCEPT !.ret = s2.heap[node].value]

\* a get whose hit restarts the entry's time to live
get_sliding(s, key, now) ==
    LET node == s.map[key]
    IN IF node = NULL
       THEN [s EXCEPT !.misses = @ + 1, !.ret = Undefined]
       ELSE IF ttl > 0 /\ isExpired(s, node, now)
            THEN [removeInternal(s, node) EXCEPT !.misses = @ + 1, !.ret = Undefined]
            ELSE LET s1 == [s EXCEPT !.hits = @ + 1, !.heap[node].createdAt = now]
                     s2 == IF node # s1.head THEN moveToFront(s1, node) ELSE s1
                 IN [s2 EXCEPT !.ret = s2.heap[node].value]

get(s, key, now) ==
    LET node == s.map[key]
    IN IF node = NULL
       THEN [s EXCEPT !.misses = @ + 1, !.ret = Undefined]
       ELSE IF ttl > 0 /\ isExpired(s, node, now)
            THEN [removeInternal(s, node) EXCEPT !.misses = @ + 1, !.ret = Undefined]
            ELSE LET s1 == [s EXCEPT !.hits = @ + 1]
                     s2 == IF node # s1.head THEN moveToFront(s1, node) ELSE s1
                 IN [s2 EXCEPT !.ret = s2.heap[node].value]

\* a set that, when it must evict, takes an expired entry if there is one
\* and the tail only otherwise
set_evictsExpiredFirst(s, key, value, now) ==
    LET existing == s.map[key]
    IN IF existing # NULL
       THEN LET s1 == [s EXCEPT !.heap[existing].value = value,
                                !.heap[existing].createdAt = now]
                s2 == IF existing # s1.head THEN moveToFront(s1, existing) ELSE s1
            IN [s2 EXCEPT !.ret = Undefined]
       ELSE LET s1 == acquire(s, key, value, now)
                node == s1.ret
                s2 == [s1 EXCEPT !.map[key] = node]
                s3 == addToFront(s2, node)
                s4 == [s3 EXCEPT !.size = @ + 1]
                old == {n \in Resident(s4) : ttl > 0 /\ isExpired(s4, n, now)}
                s5 == IF s4.size > max
                      THEN IF old # {}
                           THEN removeInternal(s4, CHOOSE n \in old : TRUE)
                           ELSE evictLRU(s4)
                      ELSE s4
            IN [s5 EXCEPT !.ret = Undefined]

\* a set that overwrites a resident entry where it is, without promoting it
set_inPlace(s, key, value, now) ==
    LET existing == s.map[key]
    IN IF existing # NULL
       THEN [s EXCEPT !.heap[existing].value = value,
                      !.heap[existing].createdAt = now,
                      !.ret = Undefined]
       ELSE LET s1 == acquire(s, key, value, now)
                node == s1.ret
                s2 == [s1 EXCEPT !.map[key] = node]
                s3 == addToFront(s2, node)
                s4 == [s3 EXCEPT !.size = @ + 1]
                s5 == IF s4.size > max THEN evictLRU(s4) ELSE s4
            IN [s5 EXCEPT !.ret = Undefined]

set(s, key, value, now) ==
    LET existing == s.map[key]
    IN IF existing # NULL
       THEN LET s1 == [s EXCEPT !.heap[existing].value = value,
                                !.heap[existing].createdAt = now]
                s2 == IF existing # s1.head THEN moveToFront(s1, existing) ELSE s1
            IN [s2 EXCEPT !.ret = Undefined]
       ELSE LET s1 == acquire(s, key, value, now)
                node == s1.ret
                s2 == [s1 EXCEPT !.map[key] = node]
                s3 == addToFront(s2, node)
                s4 == [s3 EXCEPT !.size = @ + 1]
                s5 == IF s4.size > max THEN evictLRU(s4) ELSE s4
            IN [s5 EXCEPT !.ret = Undefined]

remove(s, key) ==
    LET node == s.map[key]
    IN [(IF node # NULL THEN removeInternal(s, node) ELSE s) EXCEPT !.ret = Undefined]

\* a has that promotes the entry it finds, as get does
has_promotes(s, key, now) ==
    LET node == s.map[key]
    IN IF node = NULL
       THEN [s EXCEPT !.ret = FALSE]
       ELSE IF ttl > 0 /\ isExpired(s, node, now)
            THEN [removeInternal(s, node) EXCEPT !.ret = FALSE]
            ELSE [moveToFront(s, node) EXCEPT !.ret = TRUE]

has(s, key, now) ==
    LET node == s.map[key]
    IN IF node = NULL
       THEN [s EXCEPT !.ret = FALSE]
       ELSE IF ttl > 0 /\ isExpired(s, node, now)
            THEN [removeInternal(s, node) EXCEPT !.ret = FALSE]
            ELSE [s EXCEPT !.ret = TRUE]

RECURSIVE releaseAll(_, _)
releaseAll(s, nodes) ==
    IF nodes = {} THEN s
    ELSE LET n == CHOOSE x \in nodes : \A y \in nodes : x <= y
         IN releaseAll(release(s, n), nodes \ {n})

\* a clear that leaves the counters as they are
clear_keepsCounters(s) ==
    LET s1 == releaseAll(s, Resident(s))
        s2 == [s1 EXCEPT !.map = [k \in Keys |-> NULL],
                         !.head = NULL, !.tail = NULL, !.size = 0]
        s3 == poolClear(s2)
    IN [(IF sweepWorker THEN stop(s3) ELSE s3) EXCEPT !.ret = Undefined]

\* a clear that leaves the sweeper running
clear_keepsSweeper(s) ==
    LET s1 == releaseAll(s, Resident(s))
        s2 == [s1 EXCEPT !.map = [k \in Keys |-> NULL],
                         !.head = NULL, !.tail = NULL,
                         !.size = 0, !.hits = 0, !.misses = 0]
    IN [poolClear(s2) EXCEPT !.ret = Undefined]

clear(s) ==
    LET s1 == releaseAll(s, Resident(s))
        s2 == [s1 EXCEPT !.map = [k \in Keys |-> NULL],
                         !.head = NULL, !.tail = NULL,
                         !.size = 0, !.hits = 0, !.misses = 0]
        s3 == poolClear(s2)
    IN [(IF sweepWorker THEN stop(s3) ELSE s3) EXCEPT !.ret = Undefined]

\* the quotient hits / total, held as <<numerator, denominator>>
hitRate(s) ==
    LET total == s.hits + s.misses
    IN IF total = 0 THEN <<0, 1>> ELSE <<s.hits, total>>

\* a sweep loop that goes on past a node that is not expired
RECURSIVE sweepLoop_noBreak(_, _, _)
sweepLoop_noBreak(s, node, now) ==
    IF node = NULL THEN s
    ELSE LET prev == s.heap[node].prev
         IN IF isExpired(s, node, now)
            THEN sweepLoop_noBreak(removeInternal(s, node), prev, now)
            ELSE sweepLoop_noBreak(s, prev, now)

RECURSIVE sweepLoop(_, _, _)
sweepLoop(s, node, now) ==
    IF node = NULL THEN s
    ELSE LET prev == s.heap[node].prev
         IN IF isExpired(s, node, now)
            THEN sweepLoop(removeInternal(s, node), prev, now)
            ELSE s

\* a sweepExpired without the test of ttl
sweepExpired_always(s, now) ==
    [sweepLoop(s, s.tail, now) EXCEPT !.ret = Undefined]

sweepExpired(s, now) ==
    [(IF ttl <= 0 THEN s ELSE sweepLoop(s, s.tail, now)) EXCEPT !.ret = Undefined]

\* a handler that unlinks the tail node and leaves the rest of the removal
\* undone, as a sweep cut short would
onmessage_cutShort(s, now) ==
    IF s.tail # NULL /\ ttl > 0 /\ isExpired(s, s.tail, now)
    THEN removeNode(s, s.tail)
    ELSE s

\* worker.onmessage of LRUCacheWorker, for a message of type "sweep", which
\* is all the Worker posts: this.cache.sweepExpired(), now being Date.now()
onmessage(s, now) == sweepExpired(s, now)

\* ---- the state machine ----

Cur == [map |-> map, head |-> head, tail |-> tail, size |-> size,
        hits |-> hits, misses |-> misses, heap |-> heap, pool |-> pool,
        worker |-> worker, interval |-> interval, threads |-> threads,
        ret |-> Undefined]

Apply0(r) ==
    /\ map = r.map /\ head = r.head /\ tail = r.tail /\ size = r.size
    /\ hits = r.hits /\ misses = r.misses /\ heap = r.heap /\ pool = r.pool
    /\ worker = r.worker /\ interval = r.interval /\ threads = r.threads

ApplyFields(r) ==
    /\ map' = r.map /\ head' = r.head /\ tail' = r.tail /\ size' = r.size
    /\ hits' = r.hits /\ misses' = r.misses /\ heap' = r.heap /\ pool' = r.pool
    /\ worker' = r.worker /\ interval' = r.interval /\ threads' = r.threads
    /\ UNCHANGED <<max, ttl, status, sweepWorker, env>>

\* a call on the cache that is not one of matchAsyncMemo
Apply(r) ==
    /\ ApplyFields(r)
    /\ UNCHANGED <<promises, stack, returned>>

\* no promise made, no call of fn running
NoPromise == [input |-> NULL, state |-> "none"]

None == [at |-> -1, value |-> NULL]

Without(seq, k) == SelectSeq(seq, LAMBDA x : x # k)

\* history after a call: key k was accessed iff touched, written iff wrote
History(r, k, touched, wrote, value, now) ==
    /\ recency' = SelectSeq(IF touched THEN <<k>> \o Without(recency, k) ELSE recency,
                            LAMBDA x : r.map[x] # NULL)
    /\ written' = [x \in Keys |->
                     IF r.map[x] = NULL THEN None
                     ELSE IF wrote /\ x = k THEN [at |-> now, value |-> value]
                     ELSE written[x]]

\* the fields of a cache object as its field initializers leave them; there
\* is no LRUCacheWorker and no Worker yet
Fresh ==
    [map |-> [k \in Keys |-> NULL], head |-> NULL, tail |-> NULL, size |-> 0,
     hits |-> 0, misses |-> 0, heap |-> [n \in NodeIds |-> ClearedNode],
     pool |-> <<>>,
     worker |-> NULL, interval |-> NULL, threads |-> [w \in WorkerIds |-> NoThread],
     ret |-> Undefined]

\* new MiniLRUCache(m, {ttl: t, autoSweep, sweepInterval}): stores max and ttl
\* and, with ttl > 0 and autoSweep, makes and starts the sweeper; no path of
\* it throws
constructor(m, t, autoSweep, sweepInterval) ==
    LET made == t > 0 /\ autoSweep
        period == IF sweepInterval # Undefined THEN sweepInterval ELSE DefaultSweepInterval
    IN [max |-> m, ttl |-> t, status |-> "ok", sweepWorker |-> made,
        fields |-> IF made THEN start(LRUCacheWorker(Fresh, period)) ELSE Fresh]

\* The runs explored.  A cache of less than the largest capacity is called
\* with every key but one, every value and every timestamp, for every ttl; a
\* cache of the largest capacity, whose list gets MaxCap nodes long, is called
\* with every key, one value, the two timestamps 0 and MaxTime, and the
\* largest ttl, which expires what was written MaxTime ago.
\* mono: the timestamps passed never go back, as Date.now() gives them.
\* no sweeper is asked for in these runs.
Callers(mono) ==
    {[max |-> m, ttl |-> t, autoSweep |-> FALSE, sweepInterval |-> Undefined,
      env |-> [mono |-> mono, keys |-> 1..(NumKeys - 1), values |-> Values, times |-> Times,
               sweeper |-> "none"]] :
        m \in Caps \ {MaxCap}, t \in TTLs}
    \cup
    {[max |-> MaxCap, ttl |-> MaxTime - 1, autoSweep |-> FALSE, sweepInterval |-> Undefined,
      env |-> [mono |-> mono, keys |-> Keys, values |-> {1}, times |-> {0, MaxTime},
               sweeper |-> "none"]]}

\* the state after new MiniLRUCache(...) by one of the callers, who has also
\* built a separate LRUCacheWorker on the cache when env.sweeper = "caller"
Constructed(callers) ==
    /\ \E c \in callers :
         LET o == constructor(c.max, c.ttl, c.autoSweep, c.sweepInterval)
         IN /\ max = o.max /\ ttl = o.ttl /\ status = o.status
            /\ sweepWorker = o.sweepWorker
            /\ env = c.env
            /\ Apply0(IF c.env.sweeper = "caller"
                      THEN LRUCacheWorker(o.fields, c.env.interval)
                      ELSE o.fields)
    /\ promises = [p \in PromiseIds |-> NoPromise]
    /\ stack = <<>>
    /\ returned = [p \in PromiseIds |-> 0]
    /\ clock = 0
    /\ recency = <<>>
    /\ written = [k \in Keys |-> None]
    /\ swept = FALSE

InitCache(mono) == Constructed(Callers(mono))

Get(key, now) ==
    /\ hits + misses < MaxLookups
    /\ LET r == get(Cur, key, now)
       IN /\ Apply(r)
          /\ History(r, key, r.ret # Undefined, FALSE, NULL, now)
          /\ UNCHANGED swept

Set(key, value, now) ==
    /\ LET r == set(Cur, key, value, now)
       IN /\ Apply(r)
          /\ History(r, key, TRUE, TRUE, value, now)
          /\ UNCHANGED swept

Remove(key) ==
    /\ LET r == remove(Cur, key)
       IN /\ Apply(r)
          /\ History(r, key, FALSE, FALSE, NULL, 0)
          /\ UNCHANGED swept

Has(key, now) ==
    /\ LET r == has(Cur, key, now)
       IN /\ Apply(r)
          /\ History(r, key, FALSE, FALSE, NULL, now)
          /\ UNCHANGED swept

Clear ==
    /\ LET r == clear(Cur)
       IN /\ Apply(r)
          /\ History(r, NULL, FALSE, FALSE, NULL, 0)
          /\ UNCHANGED swept

SweepExpired(now) ==
    /\ LET r == sweepExpired(Cur, now)
       IN /\ Apply(r)
          /\ History(r, NULL, FALSE, FALSE, NULL, now)
          /\ UNCHANGED swept

\* the timestamps the caller may pass next
Nows == IF env.mono THEN {t \in env.times : t >= clock} ELSE env.times

Tick(now) == clock' = IF env.mono THEN now ELSE clock

Next ==
    \/ \E key \in env.keys, now \in Nows : Get(key, now) /\ Tick(now)
    \/ \E key \in env.keys, value \in env.values, now \in Nows :
          Set(key, value, now) /\ Tick(now)
    \/ \E key \in env.keys, now \in Nows : Has(key, now) /\ Tick(now)
    \/ \E now \in Nows : SweepExpired(now) /\ Tick(now)
    \/ \E key \in env.keys : Remove(key) /\ UNCHANGED clock
    \/ Clear /\ UNCHANGED clock

\* any timestamps
Init == InitCache(FALSE)
Spec == Init /\ [][Next]_vars

\* timestamps that never go back
InitMono == InitCache(TRUE)
SpecMono == InitMono /\ [][Next]_vars

\* ---- the state machine with a sweeper ----

\* The runs with a sweeper: the cache's own (autoSweep, started by the
\* constructor when ttl > 0 and stopped by clear), or an LRUCacheWorker the
\* caller has built on a cache without autoSweep and starts, stops and
\* restarts directly.  Timestamps are those of Date.now(): they never go back.
SweepCallers ==
    {[max |-> m, ttl |-> t, autoSweep |-> a, sweepInterval |-> i,
      env |-> [mono |-> TRUE, keys |-> 1..2, values |-> {1}, times |-> Times,
               sweeper |-> IF a THEN "auto" ELSE "caller",
               interval |-> i]] :
        m \in 1..2, t \in TTLs, a \in BOOLEAN, i \in {Undefined} \cup Intervals}

\* a call of the LRUCacheWorker the caller holds; at most MaxWorkers Workers
\* run at a time
Lifecycle(r) ==
    /\ env.sweeper = "caller"
    /\ \E w \in WorkerIds : ~threads[w].alive
    /\ Apply(r)
    /\ UNCHANGED <<clock, recency, written, swept>>

Start == Lifecycle(start(Cur))

Stop == Lifecycle(stop(Cur))

Restart(newInterval) == Lifecycle(restart(Cur, newInterval))

\* the Worker w takes the next message sent to it
SelfOnmessage(w) ==
    /\ threads[w].alive /\ threads[w].inbox # <<>>
    /\ Apply(selfOnmessage(Cur, w))
    /\ UNCHANGED <<clock, recency, written, swept>>

\* the timer of the Worker w fires
IntervalCallback(w) ==
    /\ threads[w].alive /\ threads[w].intervalId # NULL
    /\ threads[w].outbox < MaxPending
    /\ Apply(intervalCallback(Cur, w))
    /\ UNCHANGED <<clock, recency, written, swept>>

\* the thread of the cache, between two calls, takes a message that the
\* Worker w has posted and runs its handler
Onmessage(w, now) ==
    /\ threads[w].alive /\ threads[w].outbox > 0
    /\ LET r == onmessage([Cur EXCEPT !.threads[w].outbox = @ - 1], now)
       IN /\ Apply(r)
          /\ History(r, NULL, FALSE, FALSE, NULL, now)
          /\ swept' = (swept \/ r.size < size)

NextSweep ==
    \/ Next
    \/ Start /\ UNCHANGED clock
    \/ Stop /\ UNCHANGED clock
    \/ \E newInterval \in {Undefined} \cup Intervals : Restart(newInterval) /\ UNCHANGED clock
    \/ \E w \in WorkerIds : SelfOnmessage(w) /\ UNCHANGED clock
    \/ \E w \in WorkerIds : IntervalCallback(w) /\ UNCHANGED clock
    \/ \E w \in WorkerIds, now \in Nows : Onmessage(w, now) /\ Tick(now)

InitSweep == Constructed(SweepCallers)
SpecSweep == InitSweep /\ [][NextSweep]_vars

\* ---- the cache with its own sweeper, every thread getting its turn ----

\* caches with ttl > 0 and autoSweep, at the default interval
AutoCallers ==
    {c \in SweepCallers : c.autoSweep /\ c.ttl > 0 /\ c.sweepInterval = Undefined}

WorkerStep == \E w \in WorkerIds : SelfOnmessage(w) /\ UNCHANGED clock
TimerStep == \E w \in WorkerIds : IntervalCallback(w) /\ UNCHANGED clock
MessageStep == \E w \in WorkerIds, now \in Nows : Onmessage(w, now) /\ Tick(now)

NextAuto ==
    \/ Next
    \/ WorkerStep
    \/ TimerStep
    \/ MessageStep

\* the Worker handles the messages sent to it, its timer fires, and the event
\* loop of the cache's thread delivers the messages posted to it
InitAuto == Constructed(AutoCallers)
SpecAuto ==
    /\ InitAuto /\ [][NextAuto]_vars
    /\ WF_vars(WorkerStep) /\ WF_vars(TimerStep) /\ WF_vars(MessageStep)

\* ---- matchAsyncMemo over a MiniLRUCache ----

\* The function fn that matchAsyncMemo returns, on the fields m: those of the
\* cache (m.cache), the promises made, the calls of fn that have started
\* their matcher and not yet stored their promise (a matcher can call fn
\* while it starts), and the promises given to callers.  A promise p in
\* PromiseIds stands for the pair rawPromise, wrappedPromise of one call:
\* "pending", then "fulfilled", or "failed" (rawPromise rejected, its catch
\* handler not yet run) and then "rejected" (handler run, wrappedPromise
\* rejected).  The promises that the calls of fn return are the numbers
\* above MaxPromises.

Memo == [cache |-> Cur, promises |-> promises, stack |-> stack, returned |-> returned,
         ret |-> Undefined, resolvedWith |-> Undefined]

RECURSIVE Count(_, _)
Count(f, n) == IF n = 0 THEN 0 ELSE f[n] + Count(f, n - 1)

\* fn is an async function: its return statement with promise p resolves the
\* promise of the call, a new object each call, with p
asyncReturn(m, p) ==
    [m EXCEPT !.returned[p] = @ + 1,
              !.ret = MaxPromises + 1 + Count(m.returned, MaxPromises),
              !.resolvedWith = p]

\* the identity of a new promise
newPromise(m) ==
    CHOOSE p \in PromiseIds :
        /\ m.promises[p].state = "none"
        /\ \A q \in 1..(p - 1) : m.promises[q].state # "none"

\* a fn that starts the matcher without looking into the cache
fnLookup_noCache(m, value, now) ==
    LET p == newPromise(m)
    IN [m EXCEPT !.promises[p] = [input |-> value, state |-> "pending"],
                 !.stack = Append(@, [value |-> value, promise |-> p])]

\* fn(value) up to the start of the matcher: the promise cached for value if
\* there is one; otherwise rawPromise and wrappedPromise are made, and the
\* matcher runs until it first waits
fnLookup(m, value, now) ==
    LET g == get(m.cache, value, now)
        existing == g.ret
        m1 == [m EXCEPT !.cache = [g EXCEPT !.ret = Undefined]]
    IN IF existing # Undefined
       THEN asyncReturn(m1, existing)
       ELSE LET p == newPromise(m1)
            IN [m1 EXCEPT !.promises[p] = [input |-> value, state |-> "pending"],
                          !.stack = Append(@, [value |-> value, promise |-> p])]

\* the rest of the innermost running call of fn: cache.set(value,
\* wrappedPromise) and return wrappedPromise
fnStore(m, now) ==
    LET top == m.stack[Len(m.stack)]
        s == set(m.cache, top.value, top.promise, now)
    IN asyncReturn([m EXCEPT !.cache = s, !.stack = SubSeq(@, 1, Len(@) - 1)],
                   top.promise)

\* the matcher's promise of p settles
settle(m, p, ok) ==
    [m EXCEPT !.promises[p].state = IF ok THEN "fulfilled" ELSE "failed"]

\* a catch handler that rejects and leaves the cache as it is
catch_keepsEntry(m, p) ==
    [m EXCEPT !.promises[p].state = "rejected"]

\* the handler of rawPromise.catch for p: cache.remove(value), then the
\* rejection goes on to wrappedPromise
catch(m, p) ==
    [m EXCEPT !.cache = remove(m.cache, m.promises[p].input),
              !.promises[p].state = "rejected"]

ApplyMemo(r) ==
    /\ ApplyFields(r.cache)
    /\ promises' = r.promises /\ stack' = r.stack /\ returned' = r.returned
    /\ UNCHANGED swept

\* a call of fn, by a caller or by the matcher of the running call
FnLookup(value, now) ==
    /\ hits + misses < MaxCalls
    /\ Len(stack) < MaxDepth
    /\ \E p \in PromiseIds : promises[p].state = "none"
    /\ LET r == fnLookup(Memo, value, now)
       IN /\ ApplyMemo(r)
          /\ History(r.cache, value, r.resolvedWith # Undefined, FALSE, NULL, now)

FnStore(now) ==
    /\ stack # <<>>
    /\ LET r == fnStore(Memo, now)
           top == stack[Len(stack)]
       IN /\ ApplyMemo(r)
          /\ History(r.cache, top.value, TRUE, TRUE, top.promise, now)

\* a promise settles only when no call of fn is running
Settle(p, ok) ==
    /\ stack = <<>>
    /\ promises[p].state = "pending"
    /\ ApplyMemo(settle(Memo, p, ok))
    /\ UNCHANGED <<recency, written>>

Catch(p) ==
    /\ stack = <<>>
    /\ promises[p].state = "failed"
    /\ LET r == catch(Memo, p)
       IN /\ ApplyMemo(r)
          /\ History(r.cache, promises[p].input, FALSE, FALSE, NULL, 0)

\* matchAsyncMemo(builder, {useLRU: false, maxSize, maxAge}): a cache of
\* capacity maxSize and ttl maxAge without sweeper; inputs are primitive values
MemoCallers ==
    {[max |-> m, ttl |-> t, autoSweep |-> FALSE, sweepInterval |-> Undefined,
      env |-> [mono |-> TRUE, keys |-> 1..2, values |-> PromiseIds, times |-> Times,
               sweeper |-> "none"]] :
        m \in 1..2, t \in TTLs}

NextMemo ==
    \/ \E value \in env.keys, now \in Nows : FnLookup(value, now) /\ Tick(now)
    \/ \E now \in Nows : FnStore(now) /\ Tick(now)
    \/ \E p \in PromiseIds, ok \in BOOLEAN : Settle(p, ok) /\ UNCHANGED clock
    \/ \E p \in PromiseIds : Catch(p) /\ UNCHANGED clock

InitMemo == Constructed(MemoCallers)
SpecMemo == InitMemo /\ [][NextMemo]_vars

\* ---- what a caller can observe of a state ----

RECURSIVE WalkNext(_, _, _)
WalkNext(h, n, fuel) ==
    IF n = NULL \/ fuel = 0 THEN <<>> ELSE <<n>> \o WalkNext(h, h[n].next, fuel - 1)

RECURSIVE WalkPrev(_, _, _)
WalkPrev(h, n, fuel) ==
    IF n = NULL \/ fuel = 0 THEN <<>> ELSE <<n>> \o WalkPrev(h, h[n].prev, fuel - 1)

Reverse(seq) == [i \in 1..Len(seq) |-> seq[Len(seq) + 1 - i]]

\* the nodes from head by next links, and from tail by prev links
FromHead(s) == WalkNext(s.heap, s.head, NumNodes + 1)
FromTail(s) == WalkPrev(s.heap, s.tail, NumNodes + 1)

\* key, value and createdAt of the listed nodes, head first
Entries(s) ==
    [i \in 1..Len(FromHead(s)) |->
        LET n == FromHead(s)[i]
        IN <<s.heap[n].key, s.heap[n].value, s.heap[n].createdAt>>]

IndexKeys(s) == {k \in Keys : s.map[k] # NULL}

\* by the history: k was set, is still resident, and that set is not older than ttl
Present(k, now) ==
    written[k] # None /\ (ttl <= 0 \/ now - written[k].at <= ttl)

\* the call that gave r changed neither counter
SameCounters(r) == r.hits = hits /\ r.misses = misses

\* the entries without the one of key k, order kept
DropKey(entries, k) == SelectSeq(entries, LAMBDA e : e[1] # k)

\* the fields after a call, without what it returned
Fields(r) == [r EXCEPT !.ret = Undefined]

\* while the sweeper runs, node n is the tail and is expired at the last
\* timestamp passed
ExpiredAtTail(n) ==
    worker # NULL /\ tail = n /\ isExpired(Cur, n, clock)

\* ---- C1 ----
\* C1: for a cache built with a positive integer max, after every operation
\* the number of resident entries (size, which is the number of keys in the
\* index) is at most max.
C1_SizeAtMostMax ==
    max >= 1 => (size <= max /\ size = Cardinality(IndexKeys(Cur)))

\* a full cache in which every node that can exist has been allocated, which
\* takes a set of a new key at size = max
C1_Witness ==
    /\ max = MaxCap /\ size = max
    /\ NumNodes \in Resident(Cur) \cup PoolSet(Cur)

\* ---- C2 ----
\* C2: a set of a new key when size = max removes exactly one entry, the
\* resident key whose last access (a get that returned it, or a set) is the
\* oldest; has is no access.  recency lists the resident keys by last access.
C2_EvictsLeastRecent ==
    \A key \in Keys, value \in Values, now \in Times :
        (map[key] = NULL /\ size = max /\ max >= 1)
        => LET r == set(Cur, key, value, now)
               victim == recency[Len(recency)]
           IN /\ Len(recency) = size
              /\ r.map[victim] = NULL
              /\ r.map[key] # NULL
              /\ \A k \in Keys \ {victim, key} : r.map[k] = map[k]
              /\ r.size = size

\* set(1); set(2); get(1); set(3) with max = 2: key 2 is gone, 1 and 3 stay
C2_Witness ==
    /\ max = 2 /\ ttl = 0 /\ hits = 1 /\ misses = 0
    /\ recency = <<3, 1>>
    /\ map[1] = 1 /\ map[2] = NULL /\ map[3] = 3 /\ pool = <<2>>

\* ---- C3 ----
\* C3: after every operation the keys of the index are the keys of the nodes
\* reachable from head by next, each node once; size is their number; the
\* walk from tail by prev is the same nodes reversed; head is null iff tail
\* is null iff size is 0.
C3_IndexMatchesList ==
    LET fwd == FromHead(Cur)
        bwd == FromTail(Cur)
    IN /\ \A i, j \in 1..Len(fwd) : fwd[i] = fwd[j] => i = j
       /\ \A i \in 1..Len(fwd) : heap[fwd[i]].key \in Keys /\ map[heap[fwd[i]].key] = fwd[i]
       /\ {heap[fwd[i]].key : i \in 1..Len(fwd)} = IndexKeys(Cur)
       /\ size = Len(fwd)
       /\ bwd = Reverse(fwd)
       /\ (head = NULL) = (tail = NULL)
       /\ (head = NULL) = (size = 0)

\* a list of three nodes that lost its middle node (node 2, now pooled) after
\* a hit: the third node is only ever allocated while two others are resident
C3_Witness ==
    /\ max = 3 /\ size = 2 /\ hits >= 1
    /\ head = 3 /\ tail = 1 /\ pool = <<2>>
    /\ heap[head].next = tail /\ heap[tail].prev = head

\* ---- C4 ----
\* C4: with ttl = T > 0, a key last written by set at t0 and still resident is
\* returned by get(k, t1) with the value written when t1 - t0 <= T, and is
\* absent when t1 - t0 > T.
C4_TtlCorrect ==
    \A k \in Keys, t1 \in Times :
        (ttl > 0 /\ written[k] # None)
        => get(Cur, k, t1).ret =
              (IF t1 - written[k].at <= ttl THEN written[k].value ELSE Undefined)

\* a key written at 0 with ttl 1: present at 1 (the boundary), absent at 2;
\* one get has hit
C4_Witness ==
    /\ ttl = 1 /\ hits >= 1
    /\ \E k \in Keys :
         /\ written[k] # None /\ written[k].at = 0
         /\ get(Cur, k, 1).ret = written[k].value
         /\ get(Cur, k, 2).ret = Undefined

\* ---- C5 ----
\* C5: constructing a cache with a max that is not a positive integer fails
\* with an error raised to the caller.
C5_BadMaxRejected ==
    max < 1 => status = "error"

\* ---- C6 ----
\* C6: a get that finds a resident, non-expired entry adds one to hits and
\* nothing to misses; a get of an absent or expired key adds one to misses and
\* nothing to hits; set, has, remove and sweepExpired change neither counter
\* (clear alone resets them); hitRate is hits/(hits+misses), 0 when both are
\* 0, and lies in [0,1].  hitRate is held as <<numerator, denominator>>.
C6_HitMissAccounting ==
    /\ \A k \in Keys, now \in Times :
         LET r == get(Cur, k, now)
         IN IF Present(k, now)
            THEN r.ret # Undefined /\ r.hits = hits + 1 /\ r.misses = misses
            ELSE r.ret = Undefined /\ r.hits = hits /\ r.misses = misses + 1
    /\ \A k \in Keys, now \in Times :
         /\ SameCounters(has(Cur, k, now))
         /\ SameCounters(remove(Cur, k))
         /\ SameCounters(sweepExpired(Cur, now))
         /\ \A v \in Values : SameCounters(set(Cur, k, v, now))
    /\ hits >= 0 /\ misses >= 0
    /\ LET hr == hitRate(Cur)
       IN /\ hr[2] >= 1 /\ 0 <= hr[1] /\ hr[1] <= hr[2]
          /\ hr[1] * (hits + misses) = hits * hr[2]
          /\ (hits + misses = 0) => hr[1] = 0

\* a hit and a miss on an expired entry have been counted
C6_Witness ==
    /\ ttl = 1 /\ hits = 1 /\ misses = 1 /\ hitRate(Cur) = <<1, 2>>
    /\ size = 1 /\ Len(pool) = 1

\* ---- C7 ----
\* C7: has(k, now) is true exactly when get(k, now) in the same state returns
\* an entry; it leaves hits, misses and the order of the list alone; all it
\* can change is to remove k (size - 1) when k is resident and expired.
C7_HasIsPassiveGet ==
    \A k \in Keys, now \in Times :
        LET h == has(Cur, k, now)
            g == get(Cur, k, now)
        IN /\ h.ret = (g.ret # Undefined)
           /\ SameCounters(h)
           /\ IF map[k] # NULL /\ ~Present(k, now)
              THEN /\ h.size = size - 1
                   /\ h.map = [map EXCEPT ![k] = NULL]
                   /\ Entries(h) = DropKey(Entries(Cur), k)
              ELSE [h EXCEPT !.ret = Undefined] = Cur

\* a state where has finds a live entry behind the head, and one it expires
C7_Witness ==
    /\ size = 2 /\ ttl = 1
    /\ \E k \in Keys, now \in Times :
         /\ map[k] = tail /\ has(Cur, k, now).ret = TRUE
    /\ \E k \in Keys, now \in Times :
         /\ map[k] # NULL /\ has(Cur, k, now).ret = FALSE
         /\ has(Cur, k, now).size = 1

\* ---- C8 ----
\* C8: remove(k) of an absent key changes nothing; of a resident key it takes
\* one off size, makes get(k) and has(k) report absent afterwards, and leaves
\* hits, misses and the order of the other entries as they were.
C8_RemoveFrame ==
    \A k \in Keys :
        LET r == remove(Cur, k)
        IN IF map[k] = NULL
           THEN r = Cur
           ELSE /\ r.size = size - 1
                /\ r.map = [map EXCEPT ![k] = NULL]
                /\ SameCounters(r)
                /\ Entries(r) = DropKey(Entries(Cur), k)
                /\ \A now \in Times :
                     /\ get(r, k, now).ret = Undefined
                     /\ has(r, k, now).ret = FALSE

\* a cache that has counted a hit and a miss holds three entries, one has
\* been removed before (its node is pooled), and the entry in the middle of
\* the list is there to be removed
C8_Witness ==
    /\ size = 3 /\ hits = 1 /\ misses = 1
    /\ \E k \in Keys :
         /\ map[k] # NULL /\ map[k] # head /\ map[k] # tail
         /\ remove(Cur, k).size = 2
         /\ PoolSet(remove(Cur, k)) = {map[k]}

\* ---- C9 ----
\* C9: after clear() in any reachable state size, hits and misses are 0,
\* hitRate is 0, index and list are empty, get of any key is absent, and the
\* cache is in the state of a freshly constructed one with the same max and
\* ttl, so that later calls behave as on a new cache.
C9_ClearResets ==
    LET r == clear(Cur)
    IN /\ r.size = 0 /\ r.hits = 0 /\ r.misses = 0
       /\ hitRate(r) = <<0, 1>>
       /\ IndexKeys(r) = {} /\ r.head = NULL /\ r.tail = NULL
       /\ FromHead(r) = <<>>
       /\ \A k \in Keys, now \in Times : get(r, k, now).ret = Undefined
       /\ r = Fresh

\* a full cache with pooled nodes and both counters above 0, which clear empties
C9_Witness ==
    /\ max = 2 /\ size = 2 /\ hits >= 1 /\ misses >= 1 /\ Len(pool) >= 1
    /\ clear(Cur).size = 0

\* ---- C10 ----
\* C10: with TTL enabled, right after sweepExpired(now) returns no resident
\* entry is expired at time now.
C10_SweepLeavesNoExpired ==
    \A now \in Nows :
        ttl > 0 =>
            LET r == sweepExpired(Cur, now)
            IN \A k \in Keys :
                 r.map[k] # NULL => ~(now - r.heap[r.map[k]].createdAt > ttl)

\* ---- C11 ----
\* index and list of the fields s agree and respect the capacity
Consistent(s) ==
    LET fwd == FromHead(s)
    IN /\ \A i, j \in 1..Len(fwd) : fwd[i] = fwd[j] => i = j
       /\ \A i \in 1..Len(fwd) :
            s.heap[fwd[i]].key \in Keys /\ s.map[s.heap[fwd[i]].key] = fwd[i]
       /\ {s.heap[fwd[i]].key : i \in 1..Len(fwd)} = IndexKeys(s)
       /\ s.size = Len(fwd)
       /\ FromTail(s) = Reverse(fwd)
       /\ (s.head = NULL) = (s.tail = NULL)
       /\ s.size <= max
       /\ PoolSet(s) \cap Resident(s) = {}

\* C11: with the ticks of a sweeper interleaved in any way with the caller's
\* get, set, has, remove and clear, a sweep asked for by a tick is one step
\* between two calls, and index, list and capacity are consistent in every
\* reachable state (and after the sweep of every message that is waiting).
C11_SweepsBetweenCalls ==
    /\ Consistent(Cur)
    /\ \A w \in WorkerIds, now \in Nows :
         (threads[w].alive /\ threads[w].outbox > 0) => Consistent(onmessage(Cur, now))

\* after a hit, a sweep asked for by a tick has removed an entry, another
\* entry is resident, and the next message of the Worker is waiting
C11_Witness ==
    /\ swept /\ hits >= 1 /\ size >= 1 /\ Len(pool) >= 1
    /\ worker # NULL /\ threads[worker].outbox > 0

\* ---- C12 ----
\* C12: once stop() has returned (worker is null) the sweeper calls
\* sweepExpired no more, not even for ticks the timer had posted and that
\* were not delivered yet, until start() or restart() makes a new Worker;
\* stop() on a sweeper that is not running changes nothing.
C12_StoppedSweeperIsSilent ==
    /\ [](worker = NULL => stop(Cur) = Cur)
    /\ [][worker = NULL =>
            ~(\E w \in WorkerIds, now \in Nows : Onmessage(w, now))]_vars

\* a sweeper of the caller's that has swept an entry away and was then
\* stopped, while an entry is resident
C12_Witness ==
    /\ env.sweeper = "caller" /\ swept /\ worker = NULL
    /\ size >= 1 /\ threads = [w \in WorkerIds |-> NoThread]

\* ---- C13 ----
\* the Workers that run, and those of them with a timer
Running == {w \in WorkerIds : threads[w].alive}
Timers == {w \in Running : threads[w].intervalId # NULL}

\* C13: start() on a running sweeper changes nothing; whatever the sequence
\* of start, stop and restart, at most one Worker runs, it is the one the
\* field worker names, it has been sent one start message and no more, so at
\* most one timer posts sweep messages for the cache.
C13_OneWorkerOneTimer ==
    /\ worker # NULL => start(Cur) = Cur
    /\ Cardinality(Running) <= 1
    /\ Cardinality(Timers) <= 1
    /\ Running = (IF worker = NULL THEN {} ELSE {worker})
    /\ \A w \in Running :
         /\ Len(threads[w].inbox) <= 1
         /\ threads[w].intervalId # NULL => threads[w].inbox = <<>>
    /\ \A w \in WorkerIds \ Running : threads[w] = NoThread

\* a sweeper of the caller's that was started with the second interval, so
\* after a restart, whose Worker has its timer running and a tick waiting
C13_Witness ==
    /\ env.sweeper = "caller" /\ env.interval = Undefined
    /\ interval # DefaultSweepInterval
    /\ worker # NULL /\ Timers = {worker}
    /\ threads[worker].period = interval
    /\ threads[worker].outbox > 0

\* ---- C14 ----
\* C14: every node in the pool's free list has key and value null, prev and
\* next null and createdAt 0; the node acquire(k, v, t) returns, reused or
\* newly allocated, has key k, value v, createdAt t and null links, and
\* nothing else.
C14_PoolHoldsNoState ==
    /\ \A i \in 1..Len(pool) : heap[pool[i]] = ClearedNode
    /\ \A k \in Keys, v \in Values, t \in Times :
         LET r == acquire(Cur, k, v, t)
         IN /\ r.heap[r.ret] = Node(k, v, t)
            /\ r.ret \notin Resident(Cur)
            /\ r.ret \notin PoolSet(r)

\* max = 1: set(a); set(b) allocates node 2 and evicts node 1; set(3) takes
\* node 1 back from the pool and evicts node 2, which waits in the pool
C14_Witness ==
    /\ max = 1 /\ head = 1 /\ heap[1].key = 3 /\ pool = <<2>>
    /\ acquire(Cur, 1, 1, 0).ret = 2

\* ---- C15 ----
\* C15: with ttl = 0, at any timestamp get returns every resident entry, has
\* finds it, and sweepExpired, called by the caller or for a tick, changes
\* nothing: no entry leaves because of its age.  A cache constructed with
\* autoSweep and ttl = 0 is accepted, has no sweeper, and no sweep has ever
\* removed an entry.
C15_NoTtlNoExpiry ==
    ttl = 0 =>
        /\ status = "ok"
        /\ \A k \in Keys, now \in Times :
             map[k] # NULL =>
                /\ get(Cur, k, now).ret = written[k].value
                /\ get(Cur, k, now).size = size
                /\ Fields(has(Cur, k, now)) = Cur /\ has(Cur, k, now).ret = TRUE
        /\ \A now \in Times : sweepExpired(Cur, now) = Cur /\ onmessage(Cur, now) = Cur
        /\ ~swept
        /\ env.sweeper = "auto" =>
              ~sweepWorker /\ worker = NULL /\ threads = [w \in WorkerIds |-> NoThread]

\* a cache built with autoSweep and ttl = 0: at time MaxTime two entries
\* written at 0 are resident, and a get has hit
C15_Witness ==
    /\ ttl = 0 /\ env.sweeper = "auto" /\ clock = MaxTime
    /\ size = 2 /\ hits >= 1
    /\ \A k \in Keys : map[k] # NULL => heap[map[k]].createdAt = 0

\* ---- C16 ----
\* what one call of remove, get, has, sweepExpired or set can leave behind
RemovalOutcomes ==
    {remove(Cur, k) : k \in Keys}
    \cup {Fields(get(Cur, k, now)) : k \in Keys, now \in Times}
    \cup {Fields(has(Cur, k, now)) : k \in Keys, now \in Times}
    \cup {sweepExpired(Cur, now) : now \in Times}
    \cup {set(Cur, k, v, now) : k \in Keys, v \in Values, now \in Times}

\* the nodes resident before the call that gave r and not after it
Removed(r) == Resident(Cur) \ Resident(r)

\* every node the call removed is cleared and in the free list, and the next
\* acquire takes its node from the free list
Recycled(r) ==
    /\ \A n \in Removed(r) : r.heap[n] = ClearedNode /\ n \in PoolSet(r)
    /\ Removed(r) # {} => acquire(r, 1, 1, 0).ret \in PoolSet(r)

\* C16 (as claimed): on every removal path, explicit remove, TTL expiry
\* found by get, has or sweepExpired, LRU eviction, and clear, the removed
\* node is cleared and ends up in the pool's free list.
C16_EveryRemovalPools ==
    /\ \A r \in RemovalOutcomes : Recycled(r)
    /\ Recycled(clear(Cur))

\* C16 (amended): on remove, TTL expiry found by get, has or sweepExpired, and
\* LRU eviction the removed node is cleared and ends up in the free list,
\* where the next acquire finds a node; clear clears the fields of every
\* resident node and then discards the free list, so that none of them is
\* pooled afterwards.
C16_RemovalPoolsClearDrops ==
    /\ \A r \in RemovalOutcomes : Recycled(r)
    /\ LET r == clear(Cur)
       IN /\ \A n \in Resident(Cur) : r.heap[n] = ClearedNode
          /\ r.pool = <<>>

\* a full cache that has pooled a node and counted a miss, where a get and a
\* sweep remove an expired entry, a set evicts, and clear has nodes to drop
C16_Witness ==
    /\ ttl = 1 /\ size = max /\ size >= 2 /\ Len(pool) >= 1 /\ misses >= 1
    /\ \E k \in Keys, now \in Times :
         /\ Removed(get(Cur, k, now)) = {tail}
         /\ Removed(sweepExpired(Cur, now)) # {}
    /\ \E k \in Keys : Removed(set(Cur, k, 1, 0)) = {tail}
    /\ Removed(clear(Cur)) # {}

\* ---- C17 ----
\* C17: with timestamps that never go back, in every reachable state the
\* createdAt values read from head to tail are non-increasing.
C17_RecencyFollowsWriteTime ==
    LET e == Entries(Cur)
    IN \A i, j \in 1..Len(e) : i < j => e[i][3] >= e[j][3]

\* ---- C18 ----
\* C18: set(k, v, now) on a resident key, expired or not, overwrites value
\* and createdAt of its node in place, moves k to the head of the list, leaves
\* size, index, pool and counters as they were and evicts nothing; and in any
\* call, a node that stays resident and whose createdAt changes is the head
\* of the list afterwards.
C18_SetResidentInPlace ==
    /\ \A k \in Keys, v \in Values, now \in Times :
         map[k] # NULL =>
            LET r == set(Cur, k, v, now)
            IN /\ r.map = map /\ r.size = size /\ r.pool = pool
               /\ SameCounters(r)
               /\ r.head = map[k]
               /\ Entries(r) = <<(<<k, v, now>>)>> \o DropKey(Entries(Cur), k)
    /\ \A r \in RemovalOutcomes \cup {clear(Cur)} :
         \A n \in Resident(Cur) \cap Resident(r) :
            r.heap[n].createdAt # heap[n].createdAt => r.head = n

\* a full list of three whose tail entry, written at 0 and expired at MaxTime,
\* is set again at MaxTime and comes to the head
C18_Witness ==
    /\ size = 3 /\ max = 3 /\ heap[tail].createdAt = 0
    /\ isExpired(Cur, tail, MaxTime)
    /\ LET r == set(Cur, heap[tail].key, 1, MaxTime)
       IN r.head = tail /\ r.tail # tail /\ r.heap[tail].createdAt = MaxTime /\ r.size = 3

\* ---- C19 ----
\* the number of entries, counted from the head, up to the last one that is
\* not expired at now: what is behind it is the run of expired entries at
\* the tail
Kept(entries, now) ==
    LET live == {i \in 1..Len(entries) : ~(now - entries[i][3] > ttl)}
    IN IF live = {} THEN 0 ELSE CHOOSE i \in live : \A j \in live : j <= i

\* C19: sweepExpired(now) with ttl > 0 removes exactly the longest run of
\* consecutive expired nodes that ends at the tail, stopping at the first
\* node that is not expired; the other nodes, their order, hits and misses
\* stay, size goes down by the number removed, the removed nodes go to the
\* pool tail first; with ttl <= 0 nothing changes.
C19_SweepRemovesExpiredTail ==
    \A now \in Times :
        LET r == sweepExpired(Cur, now)
            e == Entries(Cur)
            kept == Kept(e, now)
            nodes == FromHead(Cur)
        IN IF ttl <= 0
           THEN r = Cur
           ELSE /\ Entries(r) = SubSeq(e, 1, kept)
                /\ FromHead(r) = SubSeq(nodes, 1, kept)
                /\ r.size = size - (Len(e) - kept)
                /\ IndexKeys(r) = {e[i][1] : i \in 1..kept}
                /\ r.pool = pool \o Reverse(SubSeq(nodes, kept + 1, Len(nodes)))
                /\ SameCounters(r)

\* a list of three, after a hit: the entry at the tail is expired at MaxTime,
\* the sweep takes it and stops at the middle one, which is not expired, and
\* the expired head stays
C19_Witness ==
    /\ size = 3 /\ ttl > 0 /\ hits >= 1
    /\ isExpired(Cur, tail, MaxTime)
    /\ ~isExpired(Cur, heap[tail].prev, MaxTime)
    /\ isExpired(Cur, head, MaxTime)
    /\ sweepExpired(Cur, MaxTime).size = 2
    /\ sweepExpired(Cur, MaxTime).pool = pool \o <<tail>>

\* ---- C20 ----
\* C20: while the cache's sweeper runs (ttl > 0, autoSweep, not stopped by
\* clear), a tick that is waiting is eventually answered by a call of
\* sweepExpired, and an expired entry at the tail of the list eventually
\* leaves (or is written again, or the sweeper is stopped), whether or not
\* get or has are ever called.
C20_TicksSweepTheTail ==
    /\ \A n \in NodeIds : ExpiredAtTail(n) ~> ~ExpiredAtTail(n)
    /\ \A w \in WorkerIds :
         (threads[w].alive /\ threads[w].outbox = MaxPending)
            ~> (~threads[w].alive \/ threads[w].outbox < MaxPending)

\* the sweeper runs and has swept away the only entry, which no get ever
\* looked up
C20_Witness ==
    /\ swept /\ hits = 0 /\ misses = 0 /\ worker # NULL
    /\ size = 0 /\ pool # <<>>

\* ---- C21 ----
\* C21: clear() stops the sweeper the cache owns, and nothing starts it
\* again: from then on the field worker stays null, no Worker runs and no
\* sweep is made for a tick, whatever set, get, has, remove, sweepExpired and
\* clear are called afterwards.
C21_ClearStopsSweeperForGood ==
    /\ [](sweepWorker =>
            /\ clear(Cur).worker = NULL
            /\ clear(Cur).threads = [w \in WorkerIds |-> NoThread])
    /\ [][(sweepWorker /\ worker = NULL) =>
            /\ worker' = NULL /\ threads' = threads
            /\ ~(\E w \in WorkerIds, now \in Nows : Onmessage(w, now))]_vars

\* the cache's sweeper was stopped by clear; an entry set afterwards is
\* expired at the last timestamp passed and still resident
C21_Witness ==
    /\ sweepWorker /\ worker = NULL
    /\ tail # NULL /\ isExpired(Cur, tail, clock)

\* ---- C22 ----
\* the timers of the Workers that run in the fields s
TimersOf(s) == {w \in WorkerIds : s.threads[w].alive /\ s.threads[w].intervalId # NULL}

\* C22: restart(newInterval) on a sweeper, running or not, leaves exactly one
\* Worker running, which is sent one start message with the period
\* newInterval when given and the interval configured before otherwise; no
\* timer of before is left, and once the Worker has taken the message it has
\* exactly one timer, of that period.  At any time the period of a timer is
\* the interval of the sweeper.
C22_RestartSetsPeriod ==
    (env.sweeper = "caller" \/ sweepWorker) =>
        /\ \A newInterval \in {Undefined} \cup Intervals :
             LET r == restart(Cur, newInterval)
                 period == IF newInterval # Undefined THEN newInterval ELSE interval
                 t == selfOnmessage(r, r.worker)
             IN /\ r.worker # NULL /\ r.interval = period
                /\ {w \in WorkerIds : r.threads[w].alive} = {r.worker}
                /\ r.threads[r.worker].inbox = <<[type |-> "start", interval |-> period]>>
                /\ r.threads[r.worker].outbox = 0
                /\ TimersOf(r) = {}
                /\ TimersOf(t) = {r.worker}
                /\ t.threads[r.worker].period = period
        /\ \A w \in Timers : threads[w].period = interval

\* a sweeper built with the second interval was restarted with the default
\* one; its Worker has set its timer, and a sweep for a tick has removed an
\* entry
C22_Witness ==
    /\ env.sweeper = "caller" /\ env.interval # Undefined
    /\ env.interval # DefaultSweepInterval /\ interval = DefaultSweepInterval
    /\ worker # NULL /\ Timers = {worker}
    /\ threads[worker].period = DefaultSweepInterval
    /\ swept

\* ---- C23 ----
\* the nodes some node of the list points to
Linked(s) ==
    {s.heap[n].prev : n \in Resident(s)} \cup {s.heap[n].next : n \in Resident(s)}

\* C23: a node the cache holds is either resident, in the index and in the
\* list, or in the pool's free list, never both: no pooled node is in the
\* index, in the list, or pointed to by head, tail or a link of a listed
\* node, and no node is in the free list twice.
C23_ResidentOrPooled ==
    LET listed == {FromHead(Cur)[i] : i \in 1..Len(FromHead(Cur))}
    IN /\ listed = Resident(Cur)
       /\ \A k, l \in Keys : (map[k] # NULL /\ map[k] = map[l]) => k = l
       /\ PoolSet(Cur) \cap (Resident(Cur) \cup Linked(Cur) \cup {head, tail}) = {}
       /\ \A i, j \in 1..Len(pool) : pool[i] = pool[j] => i = j

\* all four nodes have been allocated: after a hit, two are resident and
\* linked to each other, two are in the free list
C23_Witness ==
    /\ size = 2 /\ Len(pool) = 2 /\ hits >= 1
    /\ heap[head].next = tail /\ heap[tail].prev = head
    /\ Resident(Cur) \cup PoolSet(Cur) = NodeIds

\* ---- C24 ----
\* the promise the index holds for input k, expired or not
Cached(s, k) == IF s.map[k] = NULL THEN Undefined ELSE s.heap[s.map[k]].value

\* the promises made for input k: the runs of the matcher for k
Runs(ps, k) == {p \in PromiseIds : ps[p].state # "none" /\ ps[p].input = k}

\* C24 (as stated): in every state that calls of fn and settlements of
\* promises reach, a call of fn with an input for which the cache returns a
\* promise gets that very promise.
C24_ReceivesCachedPromise ==
    \A value \in env.keys, now \in Nows :
        LET existing == get(Cur, value, now).ret
            r == fnLookup(Memo, value, now)
        IN existing # Undefined => r.ret = existing

\* C24 (amended): in every such state, a call of fn with an input for which
\* the cache returns a promise gets a promise of its own that is resolved
\* with the cached one, and the matcher is not run: no promise is made and
\* no call is left running.
C24_FollowsCachedPromise ==
    \A value \in env.keys, now \in Nows :
        LET existing == get(Cur, value, now).ret
            r == fnLookup(Memo, value, now)
        IN existing # Undefined =>
              /\ r.resolvedWith = existing
              /\ r.ret \notin PromiseIds
              /\ r.returned = [returned EXCEPT ![existing] = @ + 1]
              /\ r.promises = promises
              /\ r.stack = stack

\* two calls were given the one promise that is cached and pending for their
\* input, and the matcher ran once for it
C24_Witness ==
    \E p \in PromiseIds :
        /\ promises[p].state = "pending"
        /\ returned[p] >= 2
        /\ Cached(Cur, promises[p].input) = p
        /\ Runs(promises, promises[p].input) = {p}

\* ---- C25 ----
\* C25: no cached promise is rejected; and when the catch handler of a failed
\* promise runs, the entry of its input leaves the cache, the promise is
\* rejected for all the calls that were given it, and the next call with that
\* input, at any time, starts the matcher again with a new promise.
C25_RejectionClearsEntry ==
    /\ \A k \in env.keys :
          Cached(Cur, k) # Undefined => promises[Cached(Cur, k)].state # "rejected"
    /\ \A p \in PromiseIds :
          (promises[p].state = "failed" /\ stack = <<>>) =>
              LET k == promises[p].input
                  r == catch(Memo, p)
              IN /\ Cached(r.cache, k) = Undefined
                 /\ r.promises[p].state = "rejected"
                 /\ r.returned = returned
                 /\ (\E q \in PromiseIds : promises[q].state = "none") =>
                       \A now \in Nows :
                           LET c == fnLookup(r, k, now)
                           IN /\ c.resolvedWith = Undefined
                              /\ Len(c.stack) = 1
                              /\ Runs(c.promises, k) # Runs(promises, k)

\* a promise given to two calls was rejected, and a later call with the same
\* input has started the matcher again
C25_Witness ==
    \E p, q \in PromiseIds :
        /\ promises[p].state = "rejected"
        /\ returned[p] >= 2
        /\ q # p
        /\ promises[q].input = promises[p].input
        /\ promises[q].state = "pending"
        /\ Cached(Cur, promises[p].input) = q

\* ---- C26 ----
\* C26: when the catch handler of a failed promise runs while the cache holds
\* for the same input a promise that was made later and is still pending,
\* that entry stays in the cache.
C26_CleanupSparesNewerPromise ==
    \A p \in PromiseIds :
        (promises[p].state = "failed" /\ stack = <<>>) =>
            LET k == promises[p].input
                q == Cached(Cur, k)
                r == catch(Memo, p)
            IN (q > p /\ promises[q].state = "pending") => Cached(r.cache, k) = q

\* ---- C27 ----
\* C27: a get that returns an entry leaves its createdAt as it was, which is
\* the time of the last set of the key; however often the key is read, with
\* ttl > 0 a get at a time t with t - (time of its last set) > ttl finds it
\* absent, also right after a hit.
C27_TtlFromLastSet ==
    \A k \in Keys :
        map[k] # NULL =>
            /\ heap[map[k]].createdAt = written[k].at
            /\ \A now \in Times :
                 LET r == get(Cur, k, now)
                 IN r.ret # Undefined =>
                      /\ r.heap[map[k]].createdAt = written[k].at
                      /\ \A t \in Times :
                           (ttl > 0 /\ t - written[k].at > ttl) =>
                               get(r, k, t).ret = Undefined

\* two gets have hit and the key read last, set at 0, is the most recently
\* used of two; read at 1 it is still there, read at MaxTime it is absent
C27_Witness ==
    /\ ttl = 1 /\ hits = 2 /\ size = 2
    /\ \E k \in Keys :
         /\ map[k] = head /\ recency[1] = k /\ written[k].at = 0
         /\ get(Cur, k, 1).ret # Undefined
         /\ get(Cur, k, MaxTime).ret = Undefined

\* ---- C28 ----
\* C28: for max >= 1, from any state, right after set(k, v, now) the key k is
\* resident, its node is the head of the list and holds v and now, and
\* get(k, now) returns v; the node a set evicts is not the one it wrote.
C28_SetThenGet ==
    max >= 1 =>
        \A k \in Keys, v \in Values, now \in Times :
            LET r == set(Cur, k, v, now)
            IN /\ r.map[k] # NULL /\ r.map[k] = r.head
               /\ r.heap[r.head] = [Node(k, v, now) EXCEPT !.next = r.heap[r.head].next]
               /\ r.map[k] \notin PoolSet(r)
               /\ get(r, k, now).ret = v
               /\ has(r, k, now).ret = TRUE

\* max = 1: the second node is allocated only by a set of a new key on the
\* full cache, which evicted node 1 and kept the node it wrote
C28_Witness ==
    /\ max = 1 /\ size = 1 /\ head = 2 /\ pool = <<1>>
    /\ \E k \in Keys : map[k] = 2 /\ recency = <<k>>

\* ---- C29 ----
\* C29: a set of a new key at size = max evicts the tail node and nothing
\* else, expired or not, whatever else in the list is expired; entries that
\* are expired and not yet removed count in size.
C29_EvictionIgnoresExpiry ==
    max >= 1 =>
        /\ size = Cardinality(IndexKeys(Cur))
        /\ \A k \in Keys, v \in Values, now \in Nows :
             (map[k] = NULL /\ size = max) =>
                LET r == set(Cur, k, v, now)
                IN /\ Removed(r) = {tail}
                   /\ r.size = size
                   /\ \A n \in Resident(Cur) \ {tail} : r.heap[n].key = heap[n].key

\* timestamps never going back: the cache is full, its tail is not expired
\* at the time now of a set of a new key, an entry nearer the head is; the
\* set evicts the tail and the expired entry stays resident
C29_Witness ==
    /\ env.mono /\ ttl > 0 /\ size = max /\ max >= 2
    /\ \E k \in Keys, now \in Nows, n \in Resident(Cur) \ {tail} :
         /\ map[k] = NULL
         /\ ~isExpired(Cur, tail, now)
         /\ isExpired(Cur, n, now)
         /\ LET r == set(Cur, k, 1, now)
            IN /\ Removed(r) = {tail}
               /\ n \in Resident(r) /\ isExpired(r, n, now)

\* ---- C30 ----
\* C30: for max >= 1, in every reachable state the resident nodes and the
\* nodes of the free list are at most max + 1 together; acquire allocates a
\* new node only when the free list is empty; after clear both numbers are 0.
C30_NodesAtMostMaxPlusOne ==
    max >= 1 =>
        /\ size + Len(pool) <= max + 1
        /\ Cardinality(Resident(Cur)) = size
        /\ (pool # <<>>) = (acquire(Cur, 1, 1, 0).ret \in PoolSet(Cur))
        /\ clear(Cur).size = 0 /\ clear(Cur).pool = <<>>
        /\ Resident(clear(Cur)) = {}

\* capacity 2, of the three nodes allocated one is resident and two wait in
\* the free list, after a miss
C30_Witness ==
    /\ max = 2 /\ size = 1 /\ Len(pool) = 2 /\ misses >= 1

====
